---- MODULE Spec2Model ----
(***************************************************************************)
(* Bearer-token verifier of the MCP server templates.                      *)
(*                                                                         *)
(* Auth0TokenVerifier (python/03-auth-oauth-server/auth.py) and            *)
(* OktaTokenVerifier (python/04-okta-oauth-server/auth.py) share one       *)
(* orchestration: PyJWKClient.get_signing_key_from_jwt, jwt.decode, claim  *)
(* normalisation, AccessToken construction, all inside one try block whose *)
(* three except clauses return None.                                       *)
(*                                                                         *)
(* verify_token is declared async but contains no await: the JWKS fetch is *)
(* a blocking call.  On the server's event loop a call therefore runs from *)
(* its first statement to its return before another call starts; calls     *)
(* that are in flight together wait in `pending`.  The steps of the        *)
(* running call are separate actions so that the fetch (an answer of the   *)
(* identity provider) and the clock are visible between them.              *)
(*                                                                         *)
(* PyJWKClient is configured with cache_keys=True and lifespan=3600:       *)
(*   - jwk_set_cache: the whole key set with the monotonic time of its     *)
(*     fetch, served while now <= timestamp + lifespan;                    *)
(*   - cache_keys=True wraps get_signing_key in functools.lru_cache        *)
(*     (16 entries, keyed by key-id, no expiry): signing_key_cache.  The   *)
(*     model has fewer than 16 key-ids, so nothing is evicted.             *)
(* jwt.decode is called with no leeway and with the default options: it    *)
(* verifies the signature, then the required claims, nbf, exp, iss, aud.   *)
(***************************************************************************)
EXTENDS Integers, Sequences, FiniteSets, TLC

(***************************************************************************)
(* Bounds of the model: MaxCalls verify_token calls in flight together,    *)
(* MaxTicks clock advances in one behaviour, and (SpecVerify) tokens that  *)
(* depart from a valid token in at most MaxDeviations fields.              *)
(***************************************************************************)
MaxCalls == 2

MaxTicks == 2

MaxDeviations == 3

\* Create tools in progress together, and creates in a behaviour.
MaxHandlers == 2

MaxCreates == 3

(***************************************************************************)
(* Configuration fixed at construction (__init__).                         *)
(***************************************************************************)
lifespan == 3600

Providers == {"Auth0", "Okta"}

domain == "idp.example"

auth_server_id == "default"

audience == "https://mcp-api"

algorithms == {"RS256"}

issuer(p) ==
    IF p = "Auth0" THEN "https://" \o domain \o "/"
    ELSE "https://" \o domain \o "/oauth2/" \o auth_server_id

RequiredClaims == {"exp", "iss", "aud", "sub"}

(***************************************************************************)
(* Values.  A JSON value whose type the code tests or relies on is tagged: *)
(* [str |-> s], [list |-> seq], [num |-> n].  A string that the code       *)
(* splits is a sequence of one-character strings.                          *)
(***************************************************************************)
Kids == {"k1", "k2"}

None == [kind |-> "None"]

NoKey == "-"

NoToken == [wellFormed |-> FALSE, alg |-> "-", kid |-> "-", sigAlg |-> "-",
            sigKey |-> "-", payload |-> <<>>]

JStr(s) == [str |-> s]

JList(l) == [list |-> l]

JNum(n) == [num |-> n]

IsStr(v) == "str" \in DOMAIN v

IsList(v) == "list" \in DOMAIN v

VARIABLES
    provider,           \* which verifier class this process constructed
    now,                \* the clock (seconds)
    ticks,              \* clock advances so far
    jwk_set_cache,      \* None, or [keys, timestamp]: PyJWKClient.jwk_set_cache
    signing_key_cache,  \* key-id -> fetch time of the cached key: lru_cache of get_signing_key
    pending,            \* number of calls in flight that have not started running
    pc,                 \* position of the call that is running ("idle": none)
    token,              \* its argument
    signing_key,        \* the key get_signing_key_from_jwt returned
    payload,            \* the claims jwt.decode returned
    grant,              \* the normalised fields before AccessToken(...)
    result,             \* what verify_token returned
    call,               \* record of what the running call did
    burst,              \* record of the calls submitted together
    db_file,            \* the file at DB_PATH: whether it exists, the JSON object in it
    handlers,           \* the create tools in progress: their locals
    created             \* record of the creates that have returned, in order

verifierVars == <<provider, now, ticks, jwk_set_cache, signing_key_cache, pending, pc,
                  token, signing_key, payload, grant, result, call, burst>>

storeVars == <<db_file, handlers, created>>

vars == <<verifierVars, storeVars>>

(***************************************************************************)
(* Tokens.  A token is its header (alg, kid), the algorithm and key its    *)
(* signature was made with, and its claims; payload is a function whose    *)
(* domain is the set of claims present.  sigKey = kid means "signed with   *)
(* the private key of kid"; an HS256 signature with sigKey = kid is the    *)
(* algorithm-confusion forgery (an HMAC keyed with the public key).        *)
(***************************************************************************)
Claim(n, opt) == IF opt = <<>> THEN <<>> ELSE (n :> opt[1])

ScopeClaim(p) == IF p = "Auth0" THEN "scope" ELSE "scp"

WrongIssuer(p) ==
    IF p = "Auth0" THEN "https://" \o "idp.examplf" \o "/"
    ELSE "https://" \o domain \o "/oauth2/" \o "defaulu"

WrongAudience == "https://mcp-apj"

Fields == {"alg", "sig", "exp", "nbf", "iss", "aud", "sub", "scope", "cid"}

\* The field values of a valid token of provider p issued at time t
\* (<<v>>: present with value v, << >>: absent).
Default(f, p, t) ==
    CASE f = "alg"   -> <<"RS256">>
      [] f = "sig"   -> <<"signed">>
      [] f = "exp"   -> <<t + 1>>
      [] f = "nbf"   -> << >>
      [] f = "iss"   -> <<issuer(p)>>
      [] f = "aud"   -> <<JStr(audience)>>
      [] f = "sub"   -> <<JStr("user|1")>>
      [] f = "scope" -> IF p = "Auth0" THEN <<JStr(<<"r", " ", "w">>)>>
                        ELSE <<JList(<< <<"r">>, <<"w">> >>)>>
      [] f = "cid"   -> IF p = "Auth0" THEN << >> ELSE <<JStr("0oaXYZ")>>

\* The other values a field is drawn from.
Alts(f, p, t) ==
    CASE f = "alg"   -> << <<"HS256">> >>
      [] f = "sig"   -> << <<"forged">> >>
      [] f = "exp"   -> << <<t>>, <<t - 1>>, << >> >>
      [] f = "nbf"   -> << <<t + 1>> >>
      [] f = "iss"   -> << <<WrongIssuer(p)>>, << >> >>
      [] f = "aud"   -> << <<JList(<<"other", audience>>)>>, <<JStr(WrongAudience)>>,
                           <<JList(<<"other">>)>>, << >> >>
      [] f = "sub"   -> << << >> >>
      [] f = "scope" -> IF p = "Auth0"
                        THEN << << >>, <<JStr(<<"r", " ", " ", "r">>)>>, <<JNum(7)>> >>
                        ELSE << << >>, <<JList(<< <<"r">>, <<"r">> >>)>>,
                                <<JStr(<<"r", " ", "w">>)>>, <<JNum(7)>> >>
      [] f = "cid"   -> IF p = "Auth0" THEN << >> ELSE << << >> >>

MostAlts(p, t) ==
    CHOOSE n \in 0 .. Cardinality(Fields) :
        /\ \A f \in Fields : Len(Alts(f, p, t)) <= n
        /\ \E f \in Fields : Len(Alts(f, p, t)) = n

MkToken(k, D, c, p, t) ==
    LET V(f) == IF f \in D THEN Alts(f, p, t)[c[f]] ELSE Default(f, p, t)
    IN  [wellFormed |-> TRUE,
         alg        |-> V("alg")[1],
         kid        |-> k,
         sigAlg     |-> V("alg")[1],
         sigKey     |-> IF V("sig")[1] = "signed" THEN k ELSE "forged",
         payload    |-> Claim("exp", V("exp")) @@ Claim("nbf", V("nbf"))
                        @@ Claim("iss", V("iss")) @@ Claim("aud", V("aud"))
                        @@ Claim("sub", V("sub"))
                        @@ Claim(ScopeClaim(p), V("scope"))
                        @@ Claim("cid", V("cid"))]

Malformed == [NoToken EXCEPT !.kid = "garbage"]

Tokens(p, t) ==
    {Malformed} \cup
    UNION { UNION { { MkToken(k, D, c, p, t) : k \in Kids } :
                    c \in { x \in [D -> 1 .. MostAlts(p, t)] :
                            \A f \in D : x[f] <= Len(Alts(f, p, t)) } } :
            D \in { X \in SUBSET Fields : Cardinality(X) <= MaxDeviations } }

PlainTokens(p, t) == {Malformed} \cup { MkToken(k, {}, << >>, p, t) : k \in Kids }

(***************************************************************************)
(* PyJWKClient: the key-set cache and the fetch.                           *)
(***************************************************************************)
\* JWKSetCache.is_expired: time.monotonic() > timestamp + lifespan.
is_expired(c, t) == t > c.timestamp + lifespan

\* Variant: the key set is not cached.
cache_get_nothing(c, t) == None

\* JWKSetCache.get: the cached set, or None when there is none or it expired.
cache_get(c, t) == IF c = None \/ is_expired(c, t) THEN None ELSE c

\* What the JWKS endpoint can answer: no answer (URLError, timeout), or a
\* key set, here the set of key-ids it holds.
FetchFailed == [ok |-> FALSE, keys |-> {}]

FetchOutcomes == {FetchFailed} \cup {[ok |-> TRUE, keys |-> S] : S \in SUBSET Kids}

\* fetch_data's finally clause: jwk_set_cache.put(jwk_set); put(None) clears.
cache_put(o, t) == IF o.ok THEN [keys |-> o.keys, timestamp |-> t] ELSE None

(***************************************************************************)
(* jwt.decode(token, key, algorithms, issuer, audience, require).  Each    *)
(* operator is one check; jwt_decode gives the exception of the first      *)
(* check that fails, in the order PyJWT makes them, or NoException.        *)
(***************************************************************************)
NoException == "-"

\* Variant: the accepted algorithms are read from the token's header.
AlgFromHeader(alg) == alg \in {alg}

AlgAllowed(alg) == alg \in algorithms

\* Variant: the signature is not verified.
SigNotVerified(tok, alg, key) == TRUE

SigVerifies(tok, alg, key) == tok.sigAlg = alg /\ tok.sigKey = key

MissingRequired(pl) == RequiredClaims \ DOMAIN pl

Immature(pl, t) == "nbf" \in DOMAIN pl /\ pl.nbf > t

\* Variant: a token is still good in the second its exp names.
ExpiredStrictly(pl, t) == pl.exp < t

\* _validate_exp with leeway 0: exp <= now.
Expired(pl, t) == pl.exp <= t

\* Variant: the issuer is not compared.
IssuerNotCompared(pl, iss) == TRUE

IssuerMatches(pl, iss) == pl.iss = iss

\* _validate_aud: a string claim is one audience, a list claim is matched by
\* membership.
AudienceMatches(pl, aud) ==
    LET claims == IF IsStr(pl.aud) THEN <<pl.aud.str>> ELSE pl.aud.list
    IN  \E i \in 1 .. Len(claims) : claims[i] = aud

jwt_decode(tok, key, iss, aud, t) ==
    IF ~AlgAllowed(tok.alg) THEN "InvalidAlgorithmError"
    ELSE IF ~SigVerifies(tok, tok.alg, key) THEN "InvalidSignatureError"
    ELSE IF MissingRequired(tok.payload) # {} THEN "MissingRequiredClaimError"
    ELSE IF Immature(tok.payload, t) THEN "ImmatureSignatureError"
    ELSE IF Expired(tok.payload, t) THEN "ExpiredSignatureError"
    ELSE IF ~IssuerMatches(tok.payload, iss) THEN "InvalidIssuerError"
    ELSE IF ~AudienceMatches(tok.payload, aud) THEN "InvalidAudienceError"
    ELSE NoException

(***************************************************************************)
(* Claim normalisation (the lines between jwt.decode and AccessToken).     *)
(***************************************************************************)
\* str.split(): the maximal runs of non-blank characters, in order.
RECURSIVE SplitFrom(_, _)
SplitFrom(s, word) ==
    IF s = << >> THEN (IF word = << >> THEN << >> ELSE <<word>>)
    ELSE IF Head(s) = " "
         THEN (IF word = << >> THEN << >> ELSE <<word>>) \o SplitFrom(Tail(s), << >>)
         ELSE SplitFrom(Tail(s), Append(word, Head(s)))

split(s) == SplitFrom(s, << >>)

\* Variant: dict.get without its default: a missing claim reads as null, here
\* a value that is neither a string nor a list.
GetWithoutDefault(pl, n, default) == IF n \in DOMAIN pl THEN pl[n] ELSE JNum(0)

Get(pl, n, default) == IF n \in DOMAIN pl THEN pl[n] ELSE default

\* Python truth value of a claim value.
Truthy(v) ==
    IF IsStr(v) THEN v.str # << >>
    ELSE IF IsList(v) THEN v.list # << >>
    ELSE v.num # 0

\* Variant: the Okta verifier without its isinstance(scopes, str) branch.
NormalizeScopesNoSplit(p, pl) ==
    IF p = "Auth0"
    THEN LET scope_str == Get(pl, "scope", JStr(<< >>))
         IN  IF ~Truthy(scope_str) THEN [exc |-> NoException, scopes |-> JList(<< >>)]
             ELSE IF IsStr(scope_str)
                  THEN [exc |-> NoException, scopes |-> JList(split(scope_str.str))]
                  ELSE [exc |-> "AttributeError", scopes |-> JList(<< >>)]
    ELSE [exc |-> NoException, scopes |-> Get(pl, "scp", JList(<< >>))]

\* Auth0: scope_str = payload.get("scope", ""); scope_str.split() if scope_str
\* else [].  A truthy value that is no string has no split(): AttributeError.
\* Okta: payload.get("scp", []), split when it is a string.
\* The result is [exc, scopes]: scopes is a tagged value, as AccessToken gets it.
NormalizeScopes(p, pl) ==
    IF p = "Auth0"
    THEN LET scope_str == Get(pl, "scope", JStr(<< >>))
         IN  IF ~Truthy(scope_str) THEN [exc |-> NoException, scopes |-> JList(<< >>)]
             ELSE IF IsStr(scope_str)
                  THEN [exc |-> NoException, scopes |-> JList(split(scope_str.str))]
                  ELSE [exc |-> "AttributeError", scopes |-> JList(<< >>)]
    ELSE LET scopes == Get(pl, "scp", JList(<< >>))
         IN  IF IsStr(scopes) THEN [exc |-> NoException, scopes |-> JList(split(scopes.str))]
             ELSE [exc |-> NoException, scopes |-> scopes]

\* Variant: the Okta verifier reads sub, as the Auth0 verifier does.
NormalizeClientIdFromSub(p, pl) == Get(pl, "sub", JStr("unknown"))

\* Auth0: payload.get("sub", "unknown").
\* Okta: payload.get("cid", payload.get("sub", "unknown")).
NormalizeClientId(p, pl) ==
    IF p = "Auth0" THEN Get(pl, "sub", JStr("unknown"))
    ELSE Get(pl, "cid", Get(pl, "sub", JStr("unknown")))

\* AccessToken(token=, client_id=, scopes=, expires_at=): client_id must be a
\* string and scopes a list, else the constructor raises ValidationError.
AccessTokenValid(g) == IsStr(g.client_id) /\ IsList(g.scopes)

AccessToken(tok, g) ==
    [kind |-> "AccessToken", token |-> tok, client_id |-> g.client_id.str,
     scopes |-> g.scopes.list, expires_at |-> g.expires_at]

(***************************************************************************)
(* The except clauses of verify_token.                                     *)
(***************************************************************************)
InvalidTokenErrors ==
    {"DecodeError", "InvalidAlgorithmError", "InvalidSignatureError",
     "MissingRequiredClaimError", "ImmatureSignatureError", "ExpiredSignatureError",
     "InvalidIssuerError", "InvalidAudienceError"}

\* Not InvalidTokenError: the key client's errors and anything else.
OtherExceptions ==
    {"PyJWKClientConnectionError", "PyJWKClientError", "PyJWKSetError",
     "AttributeError", "ValidationError"}

\* Variant: no catch-all clause; what is not InvalidTokenError propagates.
ExceptHandlerNoCatchAll(e) ==
    IF e = "ExpiredSignatureError" THEN None
    ELSE IF e \in InvalidTokenErrors THEN None
    ELSE [kind |-> "raised", exc |-> e]

\* Variant: the clause for an expired token says why.
ExceptHandlerTellsExpiry(e) ==
    IF e = "ExpiredSignatureError" THEN [kind |-> "None", reason |-> "expired"]
    ELSE IF e \in InvalidTokenErrors THEN None
    ELSE None

ExceptHandler(e) ==
    IF e = "ExpiredSignatureError" THEN None
    ELSE IF e \in InvalidTokenErrors THEN None
    ELSE None

(***************************************************************************)
(* State.                                                                  *)
(***************************************************************************)
NoResult == [kind |-> "-"]

NoGrant == [client_id |-> JStr("-"), scopes |-> JList(<< >>), expires_at |-> 0 - 1]

\* What a call did: the fetches it issued, the caches as it found them when
\* it looked its key up, when the key it used was fetched and used, and the
\* exception that ended it.
NoCall ==
    [fetches |-> 0, cacheWas |-> "-", cachedKeys |-> {}, inKeyCache |-> FALSE,
     keyFetchedAt |-> 0 - 1, keyUsedAt |-> 0 - 1, exc |-> NoException]

\* The calls submitted together: how many, whether the key-set cache was empty
\* or expired then, the fetches issued and answered since, the calls returned,
\* the calls that returned before any fetch of the burst was answered, and the
\* calls whose token could not be parsed.
NoBurst ==
    [size |-> 0, onMiss |-> FALSE, fetches |-> 0, answered |-> 0, returned |-> 0,
     early |-> 0, malformed |-> 0]

\* The file at DB_PATH does not exist.
NoFile == [exists |-> FALSE, object |-> << >>]

\* A create tool that is not running.
NoHandler == [pc |-> "idle", products |-> << >>, new_id |-> << >>, args |-> "-",
              alone |-> TRUE]

\* For the record of a call: the key-set cache as the call finds it.
CacheWas ==
    IF jwk_set_cache = None THEN "empty"
    ELSE IF now - jwk_set_cache.timestamp > lifespan THEN "expired"
    ELSE "fresh"

Init ==
    /\ provider \in Providers
    /\ now = 0
    /\ ticks = 0
    /\ jwk_set_cache = None
    /\ signing_key_cache = << >>
    /\ pending = 0
    /\ pc = "idle"
    /\ token = NoToken
    /\ signing_key = NoKey
    /\ payload = << >>
    /\ grant = NoGrant
    /\ result = NoResult
    /\ call = NoCall
    /\ burst = NoBurst
    /\ db_file = NoFile
    /\ handlers = [h \in 1 .. MaxHandlers |-> NoHandler]
    /\ created = << >>

BurstReturn(b) ==
    [b EXCEPT !.returned = @ + 1, !.early = @ + (IF b.answered = 0 THEN 1 ELSE 0)]

\* An exception raised inside the try block: the except clauses decide what
\* verify_token returns.
Raise(e, c, b) ==
    /\ pc' = "Rejected"
    /\ result' = ExceptHandler(e)
    /\ call' = [c EXCEPT !.exc = e]
    /\ burst' = BurstReturn(b)

(***************************************************************************)
(* The server awaits token_verifier.verify_token(token) once per request;  *)
(* n requests arrive together.                                             *)
(***************************************************************************)
Submit(n) ==
    /\ pc = "idle"
    /\ pending = 0
    /\ pending' = n
    /\ burst' = [NoBurst EXCEPT !.size = n, !.onMiss = (CacheWas # "fresh")]
    /\ UNCHANGED <<storeVars, provider, now, ticks, jwk_set_cache, signing_key_cache, pc, token,
                   signing_key, payload, grant, result, call>>

\* The event loop starts the next call.
Begin(tok) ==
    /\ pc = "idle"
    /\ pending > 0
    /\ pending' = pending - 1
    /\ pc' = "Received"
    /\ token' = tok
    /\ call' = NoCall
    /\ burst' = [burst EXCEPT !.malformed = @ + (IF tok.wellFormed THEN 0 ELSE 1)]
    /\ UNCHANGED <<storeVars, provider, now, ticks, jwk_set_cache, signing_key_cache,
                   signing_key, payload, grant, result>>

\* Spec: the token is valid, of either key-id, or unparsable.
BeginCall == pc = "idle" /\ \E tok \in PlainTokens(provider, now) : Begin(tok)

\* SpecVerify: the first call of a new verifier, on any token of Tokens.
SubmitFirst == burst = NoBurst /\ Submit(1)

BeginAny == pc = "idle" /\ pending > 0 /\ \E tok \in Tokens(provider, now) : Begin(tok)

(***************************************************************************)
(* get_signing_key_from_jwt(token): decode the header, then                *)
(* get_signing_key(kid) behind lru_cache: get_signing_keys(), match_kid,   *)
(* and on no match get_signing_keys(refresh=True) and match_kid again.     *)
(***************************************************************************)
\* match_kid over a key set fetched at time ts; may_refresh: the first pass.
MatchKid(keys, ts, may_refresh, c, b) ==
    IF keys = {}
    THEN /\ Raise("PyJWKSetError", c, b)
         /\ UNCHANGED <<signing_key, signing_key_cache>>
    ELSE IF token.kid \in keys
    THEN /\ signing_key' = token.kid
         /\ signing_key_cache' = (token.kid :> ts) @@ signing_key_cache
         /\ pc' = "KeyResolved"
         /\ call' = [c EXCEPT !.keyFetchedAt = ts]
         /\ burst' = b
         /\ UNCHANGED result
    ELSE IF may_refresh
    THEN /\ pc' = "Refetch"
         /\ call' = [c EXCEPT !.fetches = @ + 1]
         /\ burst' = [b EXCEPT !.fetches = @ + 1]
         /\ UNCHANGED <<signing_key, signing_key_cache, result>>
    ELSE /\ Raise("PyJWKClientError", c, b)
         /\ UNCHANGED <<signing_key, signing_key_cache>>

GetSigningKey ==
    /\ pc = "Received"
    /\ LET cached == cache_get(jwk_set_cache, now)
           c == [call EXCEPT
                   !.cacheWas = CacheWas,
                   !.cachedKeys = IF CacheWas = "fresh" THEN jwk_set_cache.keys ELSE {},
                   !.inKeyCache = (token.kid \in DOMAIN signing_key_cache)]
       IN  IF ~token.wellFormed
           THEN /\ Raise("DecodeError", call, burst)
                /\ UNCHANGED <<signing_key, signing_key_cache>>
           ELSE IF token.kid \in DOMAIN signing_key_cache
           THEN /\ signing_key' = token.kid
                /\ pc' = "KeyResolved"
                /\ call' = [c EXCEPT !.keyFetchedAt = signing_key_cache[token.kid]]
                /\ UNCHANGED <<signing_key_cache, result, burst>>
           ELSE IF cached = None
           THEN /\ pc' = "Fetch"
                /\ call' = [c EXCEPT !.fetches = @ + 1]
                /\ burst' = [burst EXCEPT !.fetches = @ + 1]
                /\ UNCHANGED <<signing_key, signing_key_cache, result>>
           ELSE MatchKid(cached.keys, cached.timestamp, TRUE, c, burst)
    /\ UNCHANGED <<storeVars, provider, now, ticks, jwk_set_cache, pending, token, payload, grant>>

\* fetch_data answers: the first fetch of the call (cache empty or expired).
FetchData(o) ==
    /\ pc = "Fetch"
    /\ jwk_set_cache' = cache_put(o, now)
    /\ LET b == [burst EXCEPT !.answered = @ + 1]
       IN  IF o.ok
           THEN MatchKid(o.keys, now, TRUE, call, b)
           ELSE /\ Raise("PyJWKClientConnectionError", call, b)
                /\ UNCHANGED <<signing_key, signing_key_cache>>
    /\ UNCHANGED <<storeVars, provider, now, ticks, pending, token, payload, grant>>

\* fetch_data answers: the fetch of get_signing_keys(refresh=True).
RefreshData(o) ==
    /\ pc = "Refetch"
    /\ jwk_set_cache' = cache_put(o, now)
    /\ LET b == [burst EXCEPT !.answered = @ + 1]
       IN  IF o.ok
           THEN MatchKid(o.keys, now, FALSE, call, b)
           ELSE /\ Raise("PyJWKClientConnectionError", call, b)
                /\ UNCHANGED <<signing_key, signing_key_cache>>
    /\ UNCHANGED <<storeVars, provider, now, ticks, pending, token, payload, grant>>

(***************************************************************************)
(* jwt.decode, normalisation, AccessToken(...), return.                    *)
(***************************************************************************)
JwtDecode ==
    /\ pc = "KeyResolved"
    /\ LET e == jwt_decode(token, signing_key, issuer(provider), audience, now)
           c == [call EXCEPT !.keyUsedAt = now]
       IN  IF e = NoException
           THEN /\ payload' = token.payload
                /\ pc' = "ClaimsValidated"
                /\ call' = c
                /\ UNCHANGED <<result, burst>>
           ELSE /\ Raise(e, c, burst)
                /\ UNCHANGED payload
    /\ UNCHANGED <<storeVars, provider, now, ticks, jwk_set_cache, signing_key_cache, pending,
                   token, signing_key, grant>>

Normalize ==
    /\ pc = "ClaimsValidated"
    /\ LET n == NormalizeScopes(provider, payload)
       IN  IF n.exc = NoException
           THEN /\ grant' = [client_id  |-> NormalizeClientId(provider, payload),
                             scopes     |-> n.scopes,
                             expires_at |-> payload.exp]
                /\ pc' = "Normalized"
                /\ UNCHANGED <<result, call, burst>>
           ELSE /\ Raise(n.exc, call, burst)
                /\ UNCHANGED grant
    /\ UNCHANGED <<storeVars, provider, now, ticks, jwk_set_cache, signing_key_cache, pending,
                   token, signing_key, payload>>

Construct ==
    /\ pc = "Normalized"
    /\ IF AccessTokenValid(grant)
       THEN /\ result' = AccessToken(token, grant)
            /\ pc' = "Accepted"
            /\ burst' = BurstReturn(burst)
            /\ UNCHANGED call
       ELSE Raise("ValidationError", call, burst)
    /\ UNCHANGED <<storeVars, provider, now, ticks, jwk_set_cache, signing_key_cache, pending,
                   token, signing_key, payload, grant>>

\* The caller takes the result; the call's locals are gone.
Collect ==
    /\ pc \in {"Accepted", "Rejected"}
    /\ pc' = "idle"
    /\ token' = NoToken
    /\ signing_key' = NoKey
    /\ payload' = << >>
    /\ grant' = NoGrant
    /\ result' = NoResult
    /\ call' = NoCall
    /\ UNCHANGED <<storeVars, provider, now, ticks, jwk_set_cache, signing_key_cache, pending,
                   burst>>

\* The clock advances by a second or by the cache lifespan.  Calls in flight
\* together read the clock as one value: it advances between bursts.
Tick(d) ==
    /\ pc = "idle"
    /\ pending = 0
    /\ ticks < MaxTicks
    /\ ticks' = ticks + 1
    /\ now' = now + d
    /\ UNCHANGED <<storeVars, provider, jwk_set_cache, signing_key_cache, pending, pc, token,
                   signing_key, payload, grant, result, call, burst>>

Next ==
    \/ \E n \in 1 .. MaxCalls : Submit(n)
    \/ BeginCall
    \/ GetSigningKey
    \/ \E o \in FetchOutcomes : FetchData(o)
    \/ \E o \in FetchOutcomes : RefreshData(o)
    \/ JwtDecode
    \/ Normalize
    \/ Construct
    \/ Collect
    \/ \E d \in {1, lifespan} : Tick(d)

\* The verifier over its life: bursts of calls, the clock, the key caches.
Spec == Init /\ [][Next]_vars

NextVerify ==
    \/ SubmitFirst
    \/ BeginAny
    \/ GetSigningKey
    \/ \E o \in FetchOutcomes : FetchData(o)
    \/ \E o \in FetchOutcomes : RefreshData(o)
    \/ JwtDecode
    \/ Normalize
    \/ Construct
    \/ Collect
    \/ \E d \in {1, lifespan} : Tick(d)

\* One call of a newly constructed verifier, over every token of Tokens.
SpecVerify == Init /\ [][NextVerify]_vars

(***************************************************************************)
(* The JSON-file record stores of the servers (products.json, tasks.json,  *)
(* incidents.json).  add_product, create_task and create_incident are the  *)
(* same four lines: load the file, _next_id, insert the record, save the   *)
(* file.  A tool is a plain function: it reads the file once and writes it *)
(* once, and requests served by different workers on the same file meet at *)
(* those two steps.  Ids are decimal strings, here sequences of            *)
(* characters; args stands for the tool's other arguments, which are       *)
(* stored as given.                                                        *)
(***************************************************************************)
Digits == <<"0", "1", "2", "3", "4", "5", "6", "7", "8", "9">>

DigitValue(c) == CHOOSE d \in 0 .. 9 : Digits[d + 1] = c

\* int(k) of a decimal string with an optional sign.
RECURSIVE int_digits(_)
int_digits(s) ==
    IF s = << >> THEN 0
    ELSE 10 * int_digits(SubSeq(s, 1, Len(s) - 1)) + DigitValue(s[Len(s)])

int(s) == IF Head(s) = "-" THEN 0 - int_digits(Tail(s)) ELSE int_digits(s)

\* str(n): the decimal digits of n, no leading zero, "-" before a negative n.
RECURSIVE str_digits(_)
str_digits(n) ==
    IF n < 10 THEN <<Digits[n + 1]>>
    ELSE str_digits(n \div 10) \o <<Digits[(n % 10) + 1]>>

str(n) == IF n < 0 THEN <<"-">> \o str_digits(0 - n) ELSE str_digits(n)

max(S) == CHOOSE m \in S : \A x \in S : x <= m

\* The keys a stored file is drawn from, the record stored under a key, the
\* files a server may find when it starts, and the arguments of a create.
StoredKeys == {<<"1">>, <<"9">>, <<"0", "7">>, <<"1", "0">>, <<"-", "2">>}

StoredRecord(k) == [id |-> k, args |-> "stored"]

\* _save_products: the file now holds the object.
_save(products) == [exists |-> TRUE, object |-> products]

Stores ==
    {NoFile} \cup { _save([k \in K |-> StoredRecord(k)]) : K \in SUBSET StoredKeys }

Args == {"a", "b"}

\* _load_products: {} when the file does not exist, else the object in it.
_load(f) == IF ~f.exists THEN << >> ELSE f.object

\* Variant: the next id is the number of records plus one.
_next_id_by_count(products) == str(Cardinality(DOMAIN products) + 1)

\* _next_id: "1" if the store is empty, else str(max(int(k) for k) + 1).
_next_id(products) ==
    IF DOMAIN products = {} THEN <<"1">>
    ELSE str(max({ int(k) : k \in DOMAIN products }) + 1)

\* products[new_id] = record: the key is added, or its record replaced.
SetItem(products, k, record) ==
    [x \in DOMAIN products \cup {k} |-> IF x = k THEN record ELSE products[x]]

InProgress == { h \in 1 .. MaxHandlers : handlers[h].pc # "idle" }

\* The first three lines of a create tool: load, _next_id, insert.
CreateLoad(h, a) ==
    /\ handlers[h].pc = "idle"
    /\ Len(created) + Cardinality(InProgress) < MaxCreates
    /\ LET products == _load(db_file)
           new_id   == _next_id(products)
       IN  handlers' =
               [g \in 1 .. MaxHandlers |->
                   IF g = h
                   THEN [pc       |-> "loaded",
                         products |-> SetItem(products, new_id,
                                              [id |-> new_id, args |-> a]),
                         new_id   |-> new_id,
                         args     |-> a,
                         alone    |-> InProgress = {}]
                   ELSE IF handlers[g].pc = "idle" THEN handlers[g]
                   ELSE [handlers[g] EXCEPT !.alone = FALSE]]
    /\ UNCHANGED <<verifierVars, db_file, created>>

\* The last two lines: save the file, return the message naming new_id.
CreateSave(h) ==
    /\ handlers[h].pc = "loaded"
    /\ db_file' = _save(handlers[h].products)
    /\ created' = Append(created, [id     |-> handlers[h].new_id,
                                   args   |-> handlers[h].args,
                                   alone  |-> handlers[h].alone,
                                   before |-> _load(db_file),
                                   after  |-> handlers[h].products])
    /\ handlers' = [handlers EXCEPT ![h] = NoHandler]
    /\ UNCHANGED verifierVars

InitStore ==
    /\ provider \in Providers
    /\ now = 0
    /\ ticks = 0
    /\ jwk_set_cache = None
    /\ signing_key_cache = << >>
    /\ pending = 0
    /\ pc = "idle"
    /\ token = NoToken
    /\ signing_key = NoKey
    /\ payload = << >>
    /\ grant = NoGrant
    /\ result = NoResult
    /\ call = NoCall
    /\ burst = NoBurst
    /\ db_file \in Stores
    /\ handlers = [h \in 1 .. MaxHandlers |-> NoHandler]
    /\ created = << >>

NextStore ==
    \/ \E h \in 1 .. MaxHandlers : \E a \in Args : CreateLoad(h, a)
    \/ \E h \in 1 .. MaxHandlers : CreateSave(h)

\* A record store over its life, from any stored file: creates, one at a time
\* or together.
SpecStore == InitStore /\ [][NextStore]_vars

(***************************************************************************)
(* Properties.                                                             *)
(***************************************************************************)
HasReturned == pc \in {"Accepted", "Rejected"}

Running == pc \in {"Received", "Fetch", "Refetch", "KeyResolved", "ClaimsValidated",
                   "Normalized"}

CallStep ==
    \/ GetSigningKey
    \/ \E o \in FetchOutcomes : FetchData(o)
    \/ \E o \in FetchOutcomes : RefreshData(o)
    \/ JwtDecode
    \/ Normalize
    \/ Construct

\* The audiences a token names (none when it has no aud claim).
AudiencesOf(tok) ==
    IF "aud" \notin DOMAIN tok.payload THEN {}
    ELSE IF IsStr(tok.payload.aud) THEN {tok.payload.aud.str}
    ELSE { tok.payload.aud.list[i] : i \in 1 .. Len(tok.payload.aud.list) }

\* The scope claim, when present, has a type the provider's mapping handles.
ScopeWellTyped(tok) ==
    LET n == ScopeClaim(provider)
    IN  n \in DOMAIN tok.payload =>
            \/ IsStr(tok.payload[n])
            \/ provider = "Okta" /\ IsList(tok.payload[n])

\* C1: whatever the token and whatever key resolution, validation and
\* normalisation do (the key fetch fails, the key-id is unknown, the token is
\* malformed, expired, from another issuer, for another audience, lacks a
\* claim, or an error nobody anticipated is raised), a running call always has
\* a next step, and a call that has ended has returned an AccessToken or None:
\* no exception reaches the caller.
C1_NeverRaises ==
    /\ Running => ENABLED CallStep
    /\ pc = "Accepted" => result.kind = "AccessToken"
    /\ pc = "Rejected" => result.kind = "None" /\ call.exc # NoException

\* C1 witness: an error the first two except clauses do not name (a scope
\* claim that is a number has no split()) ended a call, which returned None.
C1_Witness ==
    /\ pc = "Rejected"
    /\ call.exc = "AttributeError"
    /\ result = None

\* C2: a grant is returned only for a token that passed every check: it could
\* be parsed, a key for its key-id was resolved, it is signed under RS256 with
\* that key, exp, iss, aud and sub are present, iss is the configured issuer,
\* the configured audience is among aud, and the time of the check is before
\* exp.  A returned call whose token fails any of these returned None.
C2_AllChecksPassed ==
    /\ token.wellFormed
    /\ signing_key = token.kid
    /\ call.keyFetchedAt >= 0
    /\ token.alg = "RS256"
    /\ token.sigAlg = "RS256"
    /\ token.sigKey = signing_key
    /\ {"exp", "iss", "aud", "sub"} \subseteq DOMAIN token.payload
    /\ token.payload.iss = issuer(provider)
    /\ audience \in AudiencesOf(token)
    /\ call.keyUsedAt >= 0
    /\ call.keyUsedAt < token.payload.exp

C2_GrantOnlyIfAllChecksPass ==
    /\ result.kind = "AccessToken" => pc = "Accepted" /\ C2_AllChecksPassed
    /\ HasReturned /\ ~C2_AllChecksPassed => result = None

\* C2 witness: a token with a valid RS256 signature of a resolved key and no
\* sub claim was rejected.
C2_Witness ==
    /\ pc = "Rejected"
    /\ result = None
    /\ call.keyUsedAt >= 0
    /\ token.alg = "RS256" /\ token.sigAlg = "RS256" /\ token.sigKey = signing_key
    /\ "sub" \notin DOMAIN token.payload

\* C3: every rejection, whichever failure ended the call, returns the one
\* value None: the returned value has no field besides its kind, so nothing in
\* it tells one failure from another.
C3_UniformRejection ==
    (HasReturned /\ call.exc # NoException) =>
        /\ result = None
        /\ DOMAIN result = {"kind"}

\* C3 witness: an expired token (its own except clause) was rejected with None
\* (the same value as in C1_Witness, which the catch-all clause returned).
C3_Witness ==
    /\ pc = "Rejected"
    /\ call.exc = "ExpiredSignatureError"
    /\ result = None

\* It found the cached key set within its lifespan, with or without its key-id.
KidInSet == call.cacheWas = "fresh" /\ token.kid \in call.cachedKeys

KidNotInSet == call.cacheWas = "fresh" /\ token.kid \notin call.cachedKeys

\* C4 (as claimed): when two or more calls are in flight together on a verifier
\* whose key-set cache is empty or expired, and each carries a token that can
\* be parsed, then once all have returned exactly one JWKS fetch was issued
\* for the burst and no call returned before a fetch was answered.
C4_OneFetchPerBurst ==
    (/\ burst.size >= 2
     /\ burst.onMiss
     /\ burst.malformed = 0
     /\ burst.returned = burst.size)
    => (burst.fetches = 1 /\ burst.early = 0)

\* C5 (as claimed): the key a call verifies a token with comes from a JWKS
\* fetch made at most lifespan seconds before the key is used.
C5_KeyWithinTTL ==
    call.keyUsedAt >= 0 => call.keyUsedAt - call.keyFetchedAt <= lifespan

\* C6 (as claimed): a call that finds the cached key set within its lifespan
\* and its key-id in it issues no fetch; a call issues a fetch only when the
\* cache is empty, expired or lacks the key-id; and a call issues at most one
\* fetch.
C6_AtMostOneFetch ==
    /\ KidInSet => call.fetches = 0
    /\ call.fetches > 0 => (call.cacheWas \in {"empty", "expired"} \/ KidNotInSet)
    /\ call.fetches <= 1

\* C6 (amended): as above, but a call issues at most two fetches: one when the
\* cache is empty or expired, and one more (the refresh) when the key set it
\* then holds lacks the key-id; two only in a call that began with the cache
\* empty or expired and, until the refresh is answered, has no key.
C6_AtMostTwoFetches ==
    /\ KidInSet => call.fetches = 0
    /\ call.fetches > 0 => (call.cacheWas \in {"empty", "expired"} \/ KidNotInSet)
    /\ call.fetches <= 2
    /\ call.fetches = 2 => call.cacheWas \in {"empty", "expired"}
    /\ KidNotInSet => call.fetches <= 1

\* C6 witness: a call that began with an empty or expired cache has issued
\* its second fetch (the set it fetched lacked the key-id) and returned.
C6_Witness ==
    /\ HasReturned
    /\ call.fetches = 2

\* C7 (as claimed): a call whose key-id is absent from a cached key set that
\* is within its lifespan (and holds some key) re-fetches exactly once; it then
\* verifies with the key if the new set holds the key-id, and is rejected for
\* the unknown key otherwise.
C7_RefetchOnceOnUnknownKid ==
    (/\ HasReturned
     /\ KidNotInSet
     /\ call.cachedKeys # {})
    => /\ call.fetches = 1
       /\ \/ jwk_set_cache # None /\ token.kid \in jwk_set_cache.keys
             /\ call.keyUsedAt >= 0
          \/ (jwk_set_cache = None \/ token.kid \notin jwk_set_cache.keys)
             /\ result = None

\* The running call's token passes every check but, possibly, the one named:
\* it was parsed, its key was resolved and jwt.decode ran, it is signed under
\* RS256 with that key, the four required claims are present, nbf (if any) is
\* not in the future, and the scope claim has a type the mapping handles.
PassesBut(check) ==
    /\ token.wellFormed
    /\ call.keyUsedAt >= 0
    /\ signing_key = token.kid
    /\ token.sigKey = signing_key
    /\ token.sigAlg = token.alg
    /\ check = "alg" \/ token.alg = "RS256"
    /\ {"exp", "iss", "aud", "sub"} \subseteq DOMAIN token.payload
    /\ "nbf" \in DOMAIN token.payload => token.payload.nbf <= call.keyUsedAt
    /\ check = "exp" \/ token.payload.exp > call.keyUsedAt
    /\ check = "iss" \/ token.payload.iss = issuer(provider)
    /\ check = "aud" \/ audience \in AudiencesOf(token)
    /\ ScopeWellTyped(token)

\* C8: with no leeway, a token that passes every other check is rejected (as
\* expired) when the time of the check is at or after exp, exp = now included,
\* and accepted when exp is now + 1 or later.
C8_ExpiryBoundary ==
    (HasReturned /\ PassesBut("exp")) =>
        /\ token.payload.exp <= call.keyUsedAt =>
                result = None /\ call.exc = "ExpiredSignatureError"
        /\ token.payload.exp >= call.keyUsedAt + 1 =>
                result.kind = "AccessToken" /\ result.expires_at = token.payload.exp

\* C8 witness: a token good in every other respect, whose exp is the second of
\* the check, was rejected.
C8_Witness ==
    /\ pc = "Rejected"
    /\ PassesBut("exp")
    /\ token.payload.exp = call.keyUsedAt

\* C9: a token whose iss is not the configured issuer is rejected; a token
\* whose aud, a string or a list, does not name the configured audience is
\* rejected; a list that names it among others is not rejected for its
\* audience, and the token is accepted when every other check passes.  The
\* tokens include an issuer and an audience altered in one character.
C9_IssuerAudience ==
    HasReturned =>
        /\ ("iss" \in DOMAIN token.payload /\ token.payload.iss # issuer(provider))
               => result = None
        /\ audience \notin AudiencesOf(token) => result = None
        /\ PassesBut("iss") /\ token.payload.iss # issuer(provider)
               => call.exc = "InvalidIssuerError"
        /\ PassesBut("aud") /\ audience \notin AudiencesOf(token)
               => call.exc = "InvalidAudienceError"
        /\ audience \in AudiencesOf(token) => call.exc # "InvalidAudienceError"
        /\ PassesBut("aud") /\ audience \in AudiencesOf(token)
               => result.kind = "AccessToken"

\* C9 witness: a token good in every other respect, whose issuer differs from
\* the configured one in one character, was rejected.
C9_Witness ==
    /\ pc = "Rejected"
    /\ PassesBut("iss")
    /\ token.payload.iss = WrongIssuer(provider)
    /\ call.exc = "InvalidIssuerError"

\* C10: a token whose header names an algorithm other than RS256 is rejected,
\* also when its signature verifies under the algorithm it names and every
\* claim is valid: the accepted algorithms are the fixed list, not the header.
C10_AlgorithmRejected ==
    (HasReturned /\ token.wellFormed /\ token.alg # "RS256") =>
        /\ result = None
        /\ call.keyUsedAt >= 0 => call.exc = "InvalidAlgorithmError"

\* C10 witness: an HS256 token, signed as its header says with the key of its
\* key-id and with every claim valid, was rejected.
C10_Witness ==
    /\ pc = "Rejected"
    /\ PassesBut("alg")
    /\ token.alg = "HS256"
    /\ call.exc = "InvalidAlgorithmError"

\* jwt.decode accepted the token: it could be parsed, the key of its key-id was
\* resolved, its RS256 signature verifies with it, exp, iss, aud and sub are
\* present, nbf (if any) is not in the future, exp is in the future, iss is the
\* configured issuer and the configured audience is among aud.
ValidationPassed ==
    /\ token.wellFormed
    /\ call.keyUsedAt >= 0
    /\ signing_key = token.kid
    /\ token.sigKey = signing_key
    /\ token.sigAlg = "RS256" /\ token.alg = "RS256"
    /\ {"exp", "iss", "aud", "sub"} \subseteq DOMAIN token.payload
    /\ "nbf" \in DOMAIN token.payload => token.payload.nbf <= call.keyUsedAt
    /\ token.payload.exp > call.keyUsedAt
    /\ token.payload.iss = issuer(provider)
    /\ audience \in AudiencesOf(token)

\* The whitespace-separated parts of s, stated by position: a part starts at
\* each non-blank character that is first or follows a blank, and runs to the
\* last character before the next blank.
Parts(s) ==
    LET starts == { i \in 1 .. Len(s) : s[i] # " " /\ (i = 1 \/ s[i - 1] = " ") }
        nth(k) == CHOOSE i \in starts : Cardinality({ j \in starts : j <= i }) = k
        end(i) == CHOOSE j \in i .. Len(s) :
                      /\ \A m \in i .. j : s[m] # " "
                      /\ (j = Len(s) \/ s[j + 1] = " ")
    IN  [k \in 1 .. Cardinality(starts) |-> SubSeq(s, nth(k), end(nth(k)))]

\* The scope claim is present, in a shape the provider's mapping rule names.
ScopeAsDocumented(tok) ==
    LET n == ScopeClaim(provider)
    IN  /\ n \in DOMAIN tok.payload
        /\ \/ IsStr(tok.payload[n])
           \/ provider = "Okta" /\ IsList(tok.payload[n])

\* C11: a token that passes validation and carries its scope claim in a
\* documented shape is accepted, and every grant returned carries the token it
\* was given, expires_at = exp, and client_id and scopes by the provider's
\* rule.  Auth0: scopes are the whitespace-separated parts of the string scope,
\* client_id is sub.  Okta: scopes are the list scp, or the parts of scp when
\* it is a string; client_id is cid, else sub, else "unknown".
C11_ProviderMapping ==
    LET pl == token.payload
        sc == pl[ScopeClaim(provider)]
        id == IF provider = "Okta" /\ "cid" \in DOMAIN pl THEN pl.cid.str
              ELSE IF "sub" \in DOMAIN pl THEN pl.sub.str
              ELSE "unknown"
    IN  /\ (HasReturned /\ ValidationPassed /\ ScopeAsDocumented(token))
               => result.kind = "AccessToken"
        /\ (result.kind = "AccessToken" /\ ScopeAsDocumented(token)) =>
               /\ result.token = token
               /\ result.expires_at = pl.exp
               /\ result.client_id = id
               /\ result.scopes = IF IsStr(sc) THEN Parts(sc.str) ELSE sc.list

\* C11 witness: an Okta token with cid and with scp as one string was accepted;
\* the grant names cid, not sub, and the two parts of scp.
C11_Witness ==
    /\ pc = "Accepted"
    /\ provider = "Okta"
    /\ {"cid", "scp"} \subseteq DOMAIN token.payload
    /\ token.payload.cid # token.payload.sub
    /\ IsStr(token.payload.scp)
    /\ result.client_id = token.payload.cid.str
    /\ Len(result.scopes) = 2

\* C12: a token that passes validation and has no scope claim (scope for
\* Auth0, scp for Okta) is accepted with no scopes; no exception ends the call.
\* The same holds of the other claim normalisation may find absent: an Okta
\* token without cid is accepted with client_id = sub.  So a token that passes
\* validation is never rejected for a claim that is absent.
C12_MissingScopeClaim ==
    LET pl == token.payload
    IN  (HasReturned /\ ValidationPassed) =>
            /\ ScopeClaim(provider) \notin DOMAIN pl =>
                   /\ result.kind = "AccessToken"
                   /\ result.scopes = << >>
                   /\ call.exc = NoException
            /\ ("cid" \notin DOMAIN pl /\ ScopeWellTyped(token)) =>
                   /\ result.kind = "AccessToken"
                   /\ result.client_id = pl.sub.str
            /\ result = None => (ScopeClaim(provider) \in DOMAIN pl /\ ~ScopeWellTyped(token))

\* C12 witness: an Okta token with neither scp nor cid was accepted, with no
\* scopes and the client_id of sub.
C12_Witness ==
    /\ pc = "Accepted"
    /\ provider = "Okta"
    /\ DOMAIN token.payload \cap {"scp", "cid"} = {}
    /\ result.scopes = << >>
    /\ result.client_id = token.payload.sub.str

\* C13: the scopes of a returned grant hold no scope twice, also when the
\* token's scope claim repeats one.
C13_ScopesDeduplicated ==
    result.kind = "AccessToken" =>
        \A i, j \in 1 .. Len(result.scopes) :
            result.scopes[i] = result.scopes[j] => i = j

\* The step of the call a position belongs to: while the key set is being
\* fetched the call is still at Received, its key not yet resolved.
StepOf(p) == IF p \in {"Fetch", "Refetch"} THEN "Received" ELSE p

\* The steps in their order, and where a call starts and ends.
StepsForward ==
    {<<"idle", "Received">>, <<"Received", "KeyResolved">>,
     <<"KeyResolved", "ClaimsValidated">>, <<"ClaimsValidated", "Normalized">>,
     <<"Normalized", "Accepted">>, <<"Accepted", "idle">>, <<"Rejected", "idle">>}

RanAlone(c) == c.alone

\* C15: a create that runs with no other create in progress, on whatever
\* store earlier creates left, is assigned "1" on an empty store and else the
\* decimal string of one more than the largest id stored; the id was not in
\* use, every record stored before is still stored unchanged, and the store
\* has grown by exactly the new record.  Two creates are assigned the same id
\* only if one of them met another create between its load and its save.
C15_CreateAssignsNextId ==
    /\ \A i \in 1 .. Len(created) :
           LET c    == created[i]
               keys == DOMAIN c.before
           IN  RanAlone(c) =>
                   /\ keys = {} => c.id = <<"1">>
                   /\ keys # {} =>
                          /\ \A k \in keys : int(k) < int(c.id)
                          /\ \E k \in keys : int(c.id) = int(k) + 1
                          /\ c.id[1] = "0" => Len(c.id) = 1
                   /\ c.id \notin keys
                   /\ DOMAIN c.after = keys \cup {c.id}
                   /\ Cardinality(DOMAIN c.after) = Cardinality(keys) + 1
                   /\ \A k \in keys : c.after[k] = c.before[k]
                   /\ c.after[c.id] = [id |-> c.id, args |-> c.args]
    /\ \A i, j \in 1 .. Len(created) :
           (i # j /\ created[i].id = created[j].id)
               => (~RanAlone(created[i]) \/ ~RanAlone(created[j]))

\* C15 witness: two creates that loaded the same file were assigned the same
\* id, and the record of the one that saved first is no longer in the store;
\* a create that ran alone has returned as well.
C15_Witness ==
    /\ \E i \in 1 .. Len(created) : RanAlone(created[i])
    /\ \E i, j \in 1 .. Len(created) :
           /\ i < j
           /\ created[i].id = created[j].id
           /\ created[i].args # created[j].args
           /\ ~RanAlone(created[i]) /\ ~RanAlone(created[j])
           /\ created[i].after[created[i].id].args = created[i].args
           /\ \A k \in DOMAIN db_file.object : db_file.object[k].args # created[i].args

====
